---- MODULE Spec2Model ----
(***************************************************************************)
(* Model of the AI agent of src/agent.py: classify -> lookup -> synthesize *)
(* -> remember, with the external completion and lookup capabilities as    *)
(* the environment.                                                        *)
(***************************************************************************)
EXTENDS Integers, Sequences, FiniteSets, TLC

VARIABLES
    memory,         \* self.memory: list of {"query", "response"} dicts
    pc,             \* position of the process_query call in flight
    query,          \* process_query argument
    tool_name,      \* process_query local
    parameter,      \* process_query local
    tool_data,      \* process_query local
    result,         \* process_query local (the dict it returns)
    memory_context, \* last value returned by get_memory_context
    exc,            \* exception that left process_query ("" when none)
    env,            \* what the external capabilities answered in this call
    calls,          \* external calls made by the call in flight, in order
    appended,       \* every entry handed to add_to_memory so far, in order
    ncalls,         \* process_query / add_to_memory calls started so far
    agent,          \* main.agent: "ready", or "none" when AIAgent(...) raised
    http,           \* the /ask request in flight or last answered
    threads         \* the locals of each caller sharing one AIAgent

vars == <<memory, pc, query, tool_name, parameter, tool_data, result,
          memory_context, exc, env, calls, appended, ncalls, agent, http, threads>>

(***************************************************************************)
(* Bounds of the model                                                     *)
(***************************************************************************)
MaxCalls == 2       \* process_query calls per behaviour (Spec)
MaxAppends == 7     \* add_to_memory calls per behaviour (SpecMem)
MaxOverlapped == 6  \* process_query calls per behaviour (SpecConc)
MaxRequests == 1    \* requests handed to process_query per behaviour (SpecAsk)

(***************************************************************************)
(* Python values                                                           *)
(***************************************************************************)
None == [type |-> "NoneType"]
Str(s) == [type |-> "str", val |-> s]

\* Python truth value of None, a str or a dict (lookup records are never {})
Truthy(v) ==
    CASE v.type = "NoneType" -> FALSE
      [] v.type = "str"      -> v.val # ""
      [] OTHER               -> TRUE

\* what a Python call produces: a value, or an exception
Return(v) == [raised |-> FALSE, value |-> v]
Raise(e) == [raised |-> TRUE, exc |-> e]

Min(a, b) == IF a < b THEN a ELSE b
Max(a, b) == IF a > b THEN a ELSE b

Whitespace == {" ", "\t", "\n", "\r"}

RECURSIVE LStrip(_)
LStrip(s) ==
    IF s = "" THEN ""
    ELSE IF SubSeq(s, 1, 1) \in Whitespace THEN LStrip(SubSeq(s, 2, Len(s)))
    ELSE s

RECURSIVE RStrip(_)
RStrip(s) ==
    IF s = "" THEN ""
    ELSE IF SubSeq(s, Len(s), Len(s)) \in Whitespace
         THEN RStrip(SubSeq(s, 1, Len(s) - 1))
    ELSE s

\* str.strip()
Strip(s) == RStrip(LStrip(s))

\* str.upper() on the tool labels that reach it
Upper(s) ==
    CASE s = "weather" -> "WEATHER"
      [] s = "news"    -> "NEWS"
      [] OTHER         -> s

\* dict.get(key, default)
DictGet(d, key, default) == IF key \in DOMAIN d THEN d[key] ELSE default

(***************************************************************************)
(* Conversation memory                                                     *)
(***************************************************************************)
max_memory_size == 5
ContextEntries == 3
PreviewLen == 100

MemoryEntry(q, response) == [query |-> q, response |-> response]

\* add_to_memory with pop() in place of pop(0): the newest entry goes
add_to_memory_PopsNewest(mem, q, response) ==
    LET grown == Append(mem, MemoryEntry(q, response))
    IN  IF Len(grown) > max_memory_size
        THEN SubSeq(grown, 1, Len(grown) - 1)
        ELSE grown

\* add_to_memory that remembers nothing when the response is the error result
add_to_memory_SkipsErrors(mem, q, response) ==
    IF response.reasoning = "An error occurred while generating the response."
    THEN mem
    ELSE LET grown == Append(mem, MemoryEntry(q, response))
         IN  IF Len(grown) > max_memory_size THEN Tail(grown) ELSE grown

\* AIAgent.add_to_memory: append, then pop(0) when over capacity
add_to_memory(mem, q, response) ==
    LET grown == Append(mem, MemoryEntry(q, response))
    IN  IF Len(grown) > max_memory_size THEN Tail(grown) ELSE grown

\* seq[-n:]
LastN(seq, n) == SubSeq(seq, Max(1, Len(seq) - n + 1), Len(seq))

\* s[:n]
Prefix(s, n) == SubSeq(s, 1, Min(n, Len(s)))

\* the loop body of get_memory_context for enumerate index i
ContextLines(i, item) ==
    ToString(i) \o ". User: " \o item.query \o "\n"
    \o "   Assistant: " \o Prefix(item.response.answer, PreviewLen) \o "...\n"

RECURSIVE ContextLoop(_, _, _)
ContextLoop(context, items, i) ==
    IF items = << >> THEN context
    ELSE ContextLoop(context \o ContextLines(i, Head(items)), Tail(items), i + 1)

ContextHeader == "\n\nRecent conversation history:\n"

\* get_memory_context looping over self.memory in place of self.memory[-3:]
get_memory_context_AllEntries(mem) ==
    IF mem = << >> THEN ""
    ELSE ContextLoop(ContextHeader, mem, 1)

\* AIAgent.get_memory_context
get_memory_context(mem) ==
    IF mem = << >> THEN ""
    ELSE ContextLoop(ContextHeader, LastN(mem, ContextEntries), 1)

(***************************************************************************)
(* The completion capability (openai_client.chat.completions.create)       *)
(***************************************************************************)
\* the call raised (network, auth, rate limit); detail is str(e)
ApiError(detail) == [status |-> "error", detail |-> detail]
\* the call returned; content is response.choices[0].message.content
Completion(content) == [status |-> "ok", content |-> content]

NoStripDetail == "'NoneType' object has no attribute 'strip'"

\* classification texts, by their syntax: not JSON at all, or a JSON value
Garbage == [type |-> "str", syntax |-> "text"]
JsonText(v) == [type |-> "str", syntax |-> "json", value |-> v]
JsonArray == [json |-> "array"]
JsonObject(members) == [json |-> "object", members |-> members]

ToolLabels == {Str("weather"), Str("news"), Str("llm_only")}
\* what the model may put under "tool" and "parameter"; it is not bound to
\* the three labels of the prompt
ToolValues == ToolLabels \cup {Str("wikipedia")}
ParamValues == {None, Str(""), Str("Paris")}

JsonObjects ==
    UNION { { JsonObject(f) : f \in { g \in [keys -> ToolValues \cup ParamValues] :
                  /\ "tool" \in keys => g["tool"] \in ToolValues
                  /\ "parameter" \in keys => g["parameter"] \in ParamValues } }
            : keys \in SUBSET {"tool", "parameter"} }

ClassifyResponses ==
    {ApiError("Connection error."), Completion(None), Completion(Garbage),
     Completion(JsonText(JsonArray))}
    \cup { Completion(JsonText(o)) : o \in JsonObjects }

\* json.loads
json_loads(text) ==
    IF text.syntax = "json" THEN Return(text.value) ELSE Raise("JSONDecodeError")

\* what classify_query returns from both of its except branches
Fallback == <<Str("llm_only"), None>>

\* the inner try with .get("parameter", "") in place of .get("parameter", None)
ParseClassification_EmptyDefault(text) ==
    LET parsed == json_loads(text)
    IN  IF parsed.raised
        THEN Return(Fallback)
        ELSE IF parsed.value.json # "object"
        THEN Raise("AttributeError")
        ELSE Return(<<DictGet(parsed.value.members, "tool", Str("llm_only")),
                      DictGet(parsed.value.members, "parameter", Str(""))>>)

\* the inner try of classify_query: json.loads, the three .get calls, return
ParseClassification(text) ==
    LET parsed == json_loads(text)
    IN  IF parsed.raised
        THEN Return(Fallback)                       \* except JSONDecodeError
        ELSE IF parsed.value.json # "object"
        THEN Raise("AttributeError")                \* .get on a list
        ELSE Return(<<DictGet(parsed.value.members, "tool", Str("llm_only")),
                      DictGet(parsed.value.members, "parameter", None)>>)

\* classify_query without the outer handler: the API error leaves it
classify_query_ErrorPropagates(q, resp) ==
    IF resp.status = "error"
    THEN Raise("APIError")
    ELSE IF resp.content.type # "str"
    THEN Return(Fallback)
    ELSE LET r == ParseClassification(resp.content)
         IN  IF r.raised THEN Return(Fallback) ELSE r

\* classify_query whose outer handler catches the API error only
classify_query_NoOuterCatch(q, resp) ==
    IF resp.status = "error"
    THEN Return(Fallback)
    ELSE IF resp.content.type # "str"
    THEN Raise("AttributeError")
    ELSE ParseClassification(resp.content)

\* AIAgent.classify_query, given what the completion call answers
classify_query(q, resp) ==
    IF resp.status = "error"
    THEN Return(Fallback)                           \* except Exception
    ELSE IF resp.content.type # "str"
    THEN Return(Fallback)                           \* .strip() on None
    ELSE LET r == ParseClassification(resp.content)
         IN  IF r.raised THEN Return(Fallback) ELSE r

\* the classification prompt with the memory context added to it, as the
\* synthesis prompt has it
ClassificationPrompt_WithContext(q) ==
    [purpose |-> "classification", query |-> q \o get_memory_context(memory)]

\* the prompt classify_query sends: the fixed instructions and the query
ClassificationPrompt(q) == [purpose |-> "classification", query |-> q]

(***************************************************************************)
(* The data lookups (src/tools.py)                                         *)
(***************************************************************************)
\* what the upstream weather service does with the request
WeatherUpstream == {"request_exception", "timeout", "http_error", "ok",
                    "missing_key", "empty_list", "wrong_shape"}
\* what the upstream news service does with the request
NewsUpstream == {"request_exception", "timeout", "http_error", "ok",
                 "status_not_ok", "no_articles", "missing_key", "wrong_shape"}

\* requests.exceptions.RequestException and the subclasses met here
RequestException == {"ConnectionError", "Timeout", "HTTPError"}

\* the exception raised inside the try of a lookup ("" when none):
\* requests.get (refused connection, timeout=10 elapsed), raise_for_status
\* (unknown city, bad key), or reading the payload (a key that is missing,
\* an empty "weather" list, a value of another type than expected)
UpstreamException(upstream) ==
    CASE upstream = "request_exception" -> "ConnectionError"
      [] upstream = "timeout"           -> "Timeout"
      [] upstream = "http_error"        -> "HTTPError"
      [] upstream = "missing_key"       -> "KeyError"
      [] upstream = "empty_list"        -> "IndexError"
      [] upstream = "wrong_shape"       -> "TypeError"
      [] OTHER                          -> ""

WeatherRecord ==
    [type |-> "dict", city |-> "Paris", temperature |-> 21, feels_like |-> 20,
     description |-> "partly cloudy", humidity |-> 60, wind_speed |-> 3]

NewsRecord(topic) ==
    [type |-> "dict", topic |-> topic, total_results |-> 1,
     articles |-> <<[title |-> "t", description |-> "d", source |-> "s",
                     published_at |-> "p", url |-> "u"]>>]

\* WeatherTool.get_weather
get_weather(city, upstream) ==
    LET e == UpstreamException(upstream)
    IN  IF e = "" THEN Return(WeatherRecord)
        ELSE IF e \in RequestException THEN Return(None)
        ELSE IF e \in {"KeyError", "IndexError"} THEN Return(None)
        ELSE Raise(e)                               \* no handler for it

\* NewsTool.get_news
get_news(topic, upstream) ==
    LET e == UpstreamException(upstream)
    IN  IF e = ""
        THEN IF upstream \in {"status_not_ok", "no_articles"}
             THEN Return(None)
             ELSE Return(NewsRecord(topic))
        ELSE IF e \in RequestException THEN Return(None)
        ELSE IF e \in {"KeyError", "IndexError"} THEN Return(None)
        ELSE Raise(e)                               \* no handler for it

\* AIAgent.use_weather_tool
use_weather_tool(city, upstream) == get_weather(city, upstream)
\* AIAgent.use_news_tool
use_news_tool(topic, upstream) == get_news(topic, upstream)

\* Step 2 with the weather branch testing the tool name only
SelectLookup_IgnoresParameter(tn, p) ==
    IF tn = Str("weather") THEN "weather"
    ELSE IF tn = Str("news") /\ Truthy(p) THEN "news"
    ELSE "none"

\* Step 2 of process_query: which lookup, if any, the call makes
SelectLookup(tn, p) ==
    IF tn = Str("weather") /\ Truthy(p) THEN "weather"
    ELSE IF tn = Str("news") /\ Truthy(p) THEN "news"
    ELSE "none"

(***************************************************************************)
(* Synthesis                                                               *)
(***************************************************************************)
SynthResponses ==
    {ApiError("Connection error."), Completion(None),
     Completion(Str("  \n")), Completion(Str(" It is sunny. "))}

ToolReasoning(tn) ==
    "The user asked about " \o tn.val
    \o "-related information, so I fetched data from the " \o Upper(tn.val)
    \o " API and combined it with my reasoning to form a comprehensive answer."

GeneralReasoning ==
    "This query can be answered using my general knowledge without needing external tools."

ErrorReasoning == "An error occurred while generating the response."

Apology ==
    "I apologize, but I encountered an error while processing your request. Error: "

\* the prompt built after the query was put into the memory
SynthesisPrompt_OwnQueryFirst(q, td, tn, mem) ==
    LET early == Append(mem, [query |-> q, response |-> [answer |-> ""]])
    IN  [purpose |-> "synthesis",
         template |-> IF Truthy(td) THEN "tool" ELSE "llm_only",
         query |-> q,
         tool |-> IF Truthy(td) THEN tn ELSE None,
         data |-> IF Truthy(td) THEN td ELSE None,
         memory_context |-> get_memory_context(early)]

\* the prompt generate_final_answer sends
SynthesisPrompt(q, td, tn, mem) ==
    IF Truthy(td)
    THEN [purpose |-> "synthesis", template |-> "tool", query |-> q, tool |-> tn,
          data |-> td, memory_context |-> get_memory_context(mem)]
    ELSE [purpose |-> "synthesis", template |-> "llm_only", query |-> q, tool |-> None,
          data |-> None, memory_context |-> get_memory_context(mem)]

\* the dict of the except branch of generate_final_answer
ErrorResult(detail, tn) ==
    [reasoning |-> ErrorReasoning, answer |-> Apology \o detail,
     tool_used |-> tn, raw_data |-> None]

\* generate_final_answer returning "raw_data": None from the success branch
generate_final_answer_DropsData(q, td, tn, mem, resp) ==
    LET reasoning == IF Truthy(td) THEN ToolReasoning(tn) ELSE GeneralReasoning
    IN  IF resp.status = "error"
        THEN Return(ErrorResult(resp.detail, tn))
        ELSE IF resp.content.type # "str"
        THEN Return(ErrorResult(NoStripDetail, tn))
        ELSE Return([reasoning |-> reasoning,
                     answer |-> Strip(resp.content.val),
                     tool_used |-> tn,
                     raw_data |-> None])

\* generate_final_answer choosing the reasoning by the tool name
generate_final_answer_ReasonsByToolName(q, td, tn, mem, resp) ==
    LET reasoning == IF tn # Str("llm_only") THEN ToolReasoning(tn)
                     ELSE GeneralReasoning
    IN  IF resp.status = "error"
        THEN Return(ErrorResult(resp.detail, tn))
        ELSE IF resp.content.type # "str"
        THEN Return(ErrorResult(NoStripDetail, tn))
        ELSE Return([reasoning |-> reasoning,
                     answer |-> Strip(resp.content.val),
                     tool_used |-> tn,
                     raw_data |-> IF Truthy(td) THEN td ELSE None])

\* generate_final_answer whose except branch hands the tool data on
generate_final_answer_KeepsDataOnError(q, td, tn, mem, resp) ==
    LET reasoning == IF Truthy(td) THEN ToolReasoning(tn) ELSE GeneralReasoning
        failed(detail) == [ErrorResult(detail, tn) EXCEPT !.raw_data = td]
    IN  IF resp.status = "error"
        THEN Return(failed(resp.detail))
        ELSE IF resp.content.type # "str"
        THEN Return(failed(NoStripDetail))
        ELSE Return([reasoning |-> reasoning,
                     answer |-> Strip(resp.content.val),
                     tool_used |-> tn,
                     raw_data |-> IF Truthy(td) THEN td ELSE None])

\* generate_final_answer without its except branch
generate_final_answer_Propagates(q, td, tn, mem, resp) ==
    LET reasoning == IF Truthy(td) THEN ToolReasoning(tn) ELSE GeneralReasoning
    IN  IF resp.status = "error"
        THEN Raise("APIError")
        ELSE IF resp.content.type # "str"
        THEN Raise("AttributeError")
        ELSE Return([reasoning |-> reasoning,
                     answer |-> Strip(resp.content.val),
                     tool_used |-> tn,
                     raw_data |-> IF Truthy(td) THEN td ELSE None])

\* AIAgent.generate_final_answer, given what the completion call answers
generate_final_answer(q, td, tn, mem, resp) ==
    LET reasoning == IF Truthy(td) THEN ToolReasoning(tn) ELSE GeneralReasoning
    IN  IF resp.status = "error"
        THEN Return(ErrorResult(resp.detail, tn))
        ELSE IF resp.content.type # "str"
        THEN Return(ErrorResult(NoStripDetail, tn))
        ELSE Return([reasoning |-> reasoning,
                     answer |-> Strip(resp.content.val),
                     tool_used |-> tn,
                     raw_data |-> IF Truthy(td) THEN td ELSE None])

(***************************************************************************)
(* State                                                                   *)
(***************************************************************************)
Queries == {"What is the weather in Paris?", "Explain quantum computing"}

NotCalled == [status |-> "not called"]
NoEnv == [cls |-> NotCalled, lookup |-> "not called", synth |-> NotCalled]
NoRequest == [state |-> "none"]

\* the callers that may share the agent, and a caller outside process_query
Callers == {1, 2}
IdleThread == [pc |-> "idle"]

\* AIAgent.__init__: empty memory, no call in flight
Init ==
    /\ memory = << >>
    /\ pc = "idle"
    /\ query = ""
    /\ tool_name = None
    /\ parameter = None
    /\ tool_data = None
    /\ result = None
    /\ memory_context = ""
    /\ exc = ""
    /\ env = NoEnv
    /\ calls = << >>
    /\ appended = << >>
    /\ ncalls = 0
    /\ agent = "ready"
    /\ http = NoRequest
    /\ threads = [t \in Callers |-> IdleThread]

(***************************************************************************)
(* process_query, one action per step                                      *)
(***************************************************************************)
\* Step 1: a new call starts and classifies its query
Classify(q, resp) ==
    /\ pc \in {"idle", "returned", "raised"}
    /\ ncalls < MaxCalls
    /\ LET r == classify_query(q, resp)
       IN  /\ query' = q
           /\ ncalls' = ncalls + 1
           /\ env' = [NoEnv EXCEPT !.cls = resp]
           /\ calls' = <<ClassificationPrompt(q)>>
           /\ tool_data' = None
           /\ result' = None
           /\ IF r.raised
              THEN /\ pc' = "raised"
                   /\ exc' = r.exc
                   /\ tool_name' = None
                   /\ parameter' = None
              ELSE /\ pc' = "classified"
                   /\ exc' = ""
                   /\ tool_name' = r.value[1]
                   /\ parameter' = r.value[2]
    /\ UNCHANGED <<memory, memory_context, appended>>

\* the end of a lookup branch of Step 2
LookupDone(tool, upstream, r) ==
    /\ env' = [env EXCEPT !.lookup = upstream]
    /\ calls' = Append(calls, [purpose |-> tool, argument |-> parameter])
    /\ IF r.raised
       THEN /\ pc' = "raised"
            /\ exc' = r.exc
            /\ tool_data' = None
       ELSE /\ pc' = "dispatched"
            /\ exc' = ""
            /\ tool_data' = r.value
    /\ UNCHANGED <<memory, query, tool_name, parameter, result, memory_context,
                   appended, ncalls, agent, http, threads>>

\* Step 2, weather branch
DispatchWeather(upstream) ==
    /\ pc = "classified"
    /\ SelectLookup(tool_name, parameter) = "weather"
    /\ LookupDone("weather", upstream, use_weather_tool(parameter, upstream))

\* Step 2, news branch
DispatchNews(upstream) ==
    /\ pc = "classified"
    /\ SelectLookup(tool_name, parameter) = "news"
    /\ LookupDone("news", upstream, use_news_tool(parameter, upstream))

\* Step 2, neither branch taken
DispatchSkip ==
    /\ pc = "classified"
    /\ SelectLookup(tool_name, parameter) = "none"
    /\ pc' = "dispatched"
    /\ UNCHANGED <<memory, query, tool_name, parameter, tool_data, result,
                   memory_context, exc, env, calls, appended, ncalls, agent, http,
                   threads>>

\* Step 3 putting the query into the memory before the answer exists
Synthesize_RemembersEarly(resp) ==
    /\ pc = "dispatched"
    /\ LET r == generate_final_answer(query, tool_data, tool_name, memory, resp)
       IN  /\ memory_context' = get_memory_context(memory)
           /\ env' = [env EXCEPT !.synth = resp]
           /\ calls' = Append(calls, SynthesisPrompt(query, tool_data, tool_name, memory))
           /\ memory' = IF r.raised THEN memory
                        ELSE add_to_memory(memory, query, r.value)
           /\ IF r.raised
              THEN /\ pc' = "raised"
                   /\ exc' = r.exc
                   /\ result' = None
              ELSE /\ pc' = "synthesized"
                   /\ exc' = ""
                   /\ result' = r.value
    /\ UNCHANGED <<query, tool_name, parameter, tool_data, appended, ncalls,
                   agent, http, threads>>

\* Step 3: generate_final_answer
Synthesize(resp) ==
    /\ pc = "dispatched"
    /\ LET r == generate_final_answer(query, tool_data, tool_name, memory, resp)
       IN  /\ memory_context' = get_memory_context(memory)
           /\ env' = [env EXCEPT !.synth = resp]
           /\ calls' = Append(calls, SynthesisPrompt(query, tool_data, tool_name, memory))
           /\ IF r.raised
              THEN /\ pc' = "raised"
                   /\ exc' = r.exc
                   /\ result' = None
              ELSE /\ pc' = "synthesized"
                   /\ exc' = ""
                   /\ result' = r.value
    /\ UNCHANGED <<memory, query, tool_name, parameter, tool_data, appended, ncalls,
                   agent, http, threads>>

\* Step 4 and the return
Remember ==
    /\ pc = "synthesized"
    /\ memory' = add_to_memory(memory, query, result)
    /\ appended' = Append(appended, MemoryEntry(query, result))
    /\ pc' = "returned"
    /\ UNCHANGED <<query, tool_name, parameter, tool_data, result, memory_context,
                   exc, env, calls, ncalls, agent, http, threads>>

\* one caller at a time, calling the agent directly
Next ==
    \/ /\ \E q \in Queries, resp \in ClassifyResponses : Classify(q, resp)
       /\ UNCHANGED <<agent, http, threads>>
    \/ \E upstream \in WeatherUpstream : DispatchWeather(upstream)
    \/ \E upstream \in NewsUpstream : DispatchNews(upstream)
    \/ DispatchSkip
    \/ \E resp \in SynthResponses : Synthesize(resp)
    \/ Remember

Spec == Init /\ [][Next]_vars

(***************************************************************************)
(* The memory on its own: add_to_memory and get_memory_context called      *)
(* directly                                                                *)
(***************************************************************************)
RECURSIVE Digits(_)
\* a text of n characters, no two neighbours alike
Digits(n) ==
    IF n = 0 THEN ""
    ELSE Digits(n - 1) \o SubSeq("0123456789", (n % 10) + 1, (n % 10) + 1)

Answered(answer) ==
    [reasoning |-> GeneralReasoning, answer |-> answer,
     tool_used |-> Str("llm_only"), raw_data |-> None]

\* answers shorter than, exactly as long as, and longer than the preview
MemInputs ==
    { <<"first", "Hello!">>, <<"second", Digits(PreviewLen)>>,
      <<"third", Digits(PreviewLen + 1)>>, <<"fourth", "">> }

MemAdd(q, answer) ==
    /\ ncalls < MaxAppends
    /\ ncalls' = ncalls + 1
    /\ memory' = add_to_memory(memory, q, Answered(answer))
    /\ appended' = Append(appended, MemoryEntry(q, Answered(answer)))
    /\ pc' = "added"
    /\ UNCHANGED <<query, tool_name, parameter, tool_data, result, memory_context,
                   exc, env, calls, agent, http, threads>>

MemRender ==
    /\ pc # "rendered"
    /\ memory_context' = get_memory_context(memory)
    /\ pc' = "rendered"
    /\ UNCHANGED <<memory, query, tool_name, parameter, tool_data, result, exc,
                   env, calls, appended, ncalls, agent, http, threads>>

NextMem ==
    \/ \E input \in MemInputs : MemAdd(input[1], input[2])
    \/ MemRender

SpecMem == Init /\ [][NextMem]_vars

(***************************************************************************)
(* process_query under fair scheduling                                     *)
(***************************************************************************)
\* A step that waits on nothing outside the process is taken; a lookup ends
\* because requests.get carries timeout=10. The two completion calls are
\* made without a timeout argument on a client built without one, so
\* nothing in the source makes Synthesize (or the classification of the
\* next call) happen.
Fairness ==
    /\ WF_vars(\E upstream \in WeatherUpstream : DispatchWeather(upstream))
    /\ WF_vars(\E upstream \in NewsUpstream : DispatchNews(upstream))
    /\ WF_vars(DispatchSkip)
    /\ WF_vars(Remember)

SpecLive == Init /\ [][Next]_vars /\ Fairness

(***************************************************************************)
(* The /ask endpoint (src/main.py)                                         *)
(***************************************************************************)
\* queries a client may post: the two above, the empty one, a blank one
Requests == Queries \cup {"", "   "}

Pending(q) == [state |-> "pending", query |-> q]
Responded(q, status, body) ==
    [state |-> "done", query |-> q, status |-> status, body |-> body]

\* ask without its test of the query: only the model validation and the
\* test of the agent refuse
ask_refusal_BlankAccepted(ag, q) ==
    IF Len(q) < 1 THEN 422
    ELSE IF ag = "none" THEN 503
    ELSE 0

\* the status a request is refused with before process_query is called
\* (0 when it is not refused): QueryRequest's min_length=1, then the two
\* checks at the head of ask
ask_refusal(ag, q) ==
    IF Len(q) < 1 THEN 422
    ELSE IF ag = "none" THEN 503
    ELSE IF q = "" \/ Strip(q) = "" THEN 400
    ELSE 0

\* QueryResponse(reasoning=..., answer=..., tool_used=...)
QueryResponse(res) ==
    [reasoning |-> res.reasoning, answer |-> res.answer, tool_used |-> res.tool_used]

\* the module is imported: AIAgent(...) returned, or raised and agent = None
InitAsk ==
    /\ memory = << >>
    /\ pc = "idle"
    /\ query = ""
    /\ tool_name = None
    /\ parameter = None
    /\ tool_data = None
    /\ result = None
    /\ memory_context = ""
    /\ exc = ""
    /\ env = NoEnv
    /\ calls = << >>
    /\ appended = << >>
    /\ ncalls = 0
    /\ agent \in {"ready", "none"}
    /\ http = NoRequest
    /\ threads = [t \in Callers |-> IdleThread]

\* a request that is refused
AskRefused(q) ==
    /\ http.state # "pending"
    /\ ask_refusal(agent, q) # 0
    /\ http' = Responded(q, ask_refusal(agent, q), None)
    /\ UNCHANGED <<memory, pc, query, tool_name, parameter, tool_data, result,
                   memory_context, exc, env, calls, appended, ncalls, agent,
                   threads>>

\* a request that ask hands to agent.process_query
AskAccepted(q, resp) ==
    /\ http.state # "pending"
    /\ ask_refusal(agent, q) = 0
    /\ ncalls < MaxRequests
    /\ Classify(q, resp)
    /\ http' = Pending(q)
    /\ UNCHANGED <<agent, threads>>

\* process_query returned: ask answers 200 with the QueryResponse
AskResponds ==
    /\ http.state = "pending"
    /\ pc = "returned"
    /\ http' = Responded(http.query, 200, QueryResponse(result))
    /\ UNCHANGED <<memory, pc, query, tool_name, parameter, tool_data, result,
                   memory_context, exc, env, calls, appended, ncalls, agent,
                   threads>>

\* process_query raised: except Exception in ask answers 500
AskFails ==
    /\ http.state = "pending"
    /\ pc = "raised"
    /\ http' = Responded(http.query, 500, None)
    /\ UNCHANGED <<memory, pc, query, tool_name, parameter, tool_data, result,
                   memory_context, exc, env, calls, appended, ncalls, agent,
                   threads>>

NextAsk ==
    \/ \E q \in Requests : AskRefused(q)
    \/ \E q \in Requests, resp \in ClassifyResponses : AskAccepted(q, resp)
    \/ \E upstream \in WeatherUpstream : DispatchWeather(upstream)
    \/ \E upstream \in NewsUpstream : DispatchNews(upstream)
    \/ DispatchSkip
    \/ \E resp \in SynthResponses : Synthesize(resp)
    \/ Remember
    \/ AskResponds
    \/ AskFails

SpecAsk == InitAsk /\ [][NextAsk]_vars

(***************************************************************************)
(* Two callers inside process_query of one AIAgent at the same time        *)
(***************************************************************************)
\* AIAgent holds no lock, so the callers interleave at every access to
\* self.memory: the read in get_memory_context, the append, the len() test
\* and the pop(0) of add_to_memory. Steps 1 and 2 touch only locals; the
\* calls taken here are those whose classification failed, which make no
\* lookup.
ConcClassifyResponses == {ApiError("Connection error.")}
ConcSynthResponses == {Completion(Str(" It is sunny. "))}

\* evictions so far: every entry appended is in the memory or was popped
Evictions == Len(appended) - Len(memory)

\* Steps 1 and 2 of caller t
ConcBegin(t, q, resp) ==
    /\ threads[t].pc \in {"idle", "returned"}
    /\ ncalls < MaxOverlapped
    /\ LET r == classify_query(q, resp)
       IN  /\ ~r.raised
           /\ SelectLookup(r.value[1], r.value[2]) = "none"
           /\ threads' = [threads EXCEPT ![t] =
                  [pc |-> "dispatched", query |-> q, tool_name |-> r.value[1]]]
    /\ ncalls' = ncalls + 1
    /\ UNCHANGED <<memory, pc, query, tool_name, parameter, tool_data, result,
                   memory_context, exc, env, calls, appended, agent, http>>

\* Step 3 of caller t: the context is read from self.memory as it is now,
\* then the completion call is made and the result built
ConcSynthesize(t, resp) ==
    /\ threads[t].pc = "dispatched"
    /\ LET r == generate_final_answer(threads[t].query, None, threads[t].tool_name,
                                      memory, resp)
       IN  /\ ~r.raised
           /\ threads' = [threads EXCEPT ![t] =
                  [pc |-> "synthesized", query |-> threads[t].query,
                   result |-> r.value,
                   memory_context |-> get_memory_context(memory),
                   read_at |-> [appends |-> Len(appended), evictions |-> Evictions]]]
    /\ UNCHANGED <<memory, pc, query, tool_name, parameter, tool_data, result,
                   memory_context, exc, env, calls, appended, ncalls, agent, http>>

\* Step 4 of caller t, self.memory.append(...)
ConcAppend(t) ==
    /\ threads[t].pc = "synthesized"
    /\ memory' = Append(memory, MemoryEntry(threads[t].query, threads[t].result))
    /\ appended' = Append(appended, MemoryEntry(threads[t].query, threads[t].result))
    /\ threads' = [threads EXCEPT ![t] =
           [pc |-> "appended", result |-> threads[t].result,
            between |-> (Len(appended) - threads[t].read_at.appends)
                        + (Evictions - threads[t].read_at.evictions)]]
    /\ UNCHANGED <<pc, query, tool_name, parameter, tool_data, result,
                   memory_context, exc, env, calls, ncalls, agent, http>>

\* Step 4 of caller t, if len(self.memory) > self.max_memory_size
ConcCheck(t) ==
    /\ threads[t].pc = "appended"
    /\ threads' = [threads EXCEPT ![t].pc =
           IF Len(memory) > max_memory_size THEN "over" ELSE "returned"]
    /\ UNCHANGED <<memory, pc, query, tool_name, parameter, tool_data, result,
                   memory_context, exc, env, calls, appended, ncalls, agent, http>>

\* Step 4 of caller t with pop() in place of pop(0)
ConcPop_PopsNewest(t) ==
    /\ threads[t].pc = "over"
    /\ memory # << >>
    /\ memory' = SubSeq(memory, 1, Len(memory) - 1)
    /\ threads' = [threads EXCEPT ![t].pc = "returned"]
    /\ UNCHANGED <<pc, query, tool_name, parameter, tool_data, result,
                   memory_context, exc, env, calls, appended, ncalls, agent, http>>

\* Step 4 of caller t, self.memory.pop(0), and the return
ConcPop(t) ==
    /\ threads[t].pc = "over"
    /\ memory # << >>
    /\ memory' = Tail(memory)
    /\ threads' = [threads EXCEPT ![t].pc = "returned"]
    /\ UNCHANGED <<pc, query, tool_name, parameter, tool_data, result,
                   memory_context, exc, env, calls, appended, ncalls, agent, http>>

NextConc ==
    \/ \E t \in Callers, q \in Queries, resp \in ConcClassifyResponses :
           ConcBegin(t, q, resp)
    \/ \E t \in Callers, resp \in ConcSynthResponses : ConcSynthesize(t, resp)
    \/ \E t \in Callers : ConcAppend(t)
    \/ \E t \in Callers : ConcCheck(t)
    \/ \E t \in Callers : ConcPop(t)

SpecConc == Init /\ [][NextConc]_vars

(***************************************************************************)
(* Properties                                                              *)
(***************************************************************************)
\* the call in flight has classified its query
Classified == pc \in {"classified", "dispatched", "synthesized", "returned"}
\* Step 2 of the call in flight is over
Dispatched ==
    \/ pc \in {"dispatched", "synthesized", "returned"}
    \/ pc = "raised" /\ Len(calls) > 1
\* the call in flight has its result
Synthesized == pc \in {"synthesized", "returned"}
\* the lookup calls the call in flight has made
LookupCalls == SelectSeq(calls, LAMBDA c : c.purpose \in {"weather", "news"})
\* the classification completion failed or did not answer a JSON object
MalformedOrFailed(resp) ==
    \/ resp.status = "error"
    \/ resp.content.type # "str"
    \/ resp.content.syntax # "json"
    \/ resp.content.value.json # "object"
\* the classification completion answered an object with this member
Carries(resp, key) ==
    /\ ~MalformedOrFailed(resp)
    /\ key \in DOMAIN resp.content.value.members
Last(seq) == seq[Len(seq)]

\* C1: whatever the classification completion (valid JSON, malformed text,
\* failure), the lookup (record, null, not called) and the synthesis completion
\* (text, failure) answer, process_query raises nothing and returns a result
\* whose answer is a non-empty string.
C1_AlwaysAnswers ==
    /\ (pc = "raised") => env.lookup = "wrong_shape"
    /\ (pc = "returned") => (result # None /\ result.answer # "")

\* C2: when weather or news is selected with a non-empty parameter and the
\* lookup returns null, the call still returns: tool_used is the selected
\* tool, raw_data is null and the answer is non-empty.
C2_FailedLookupStillAnswers ==
    (/\ pc = "returned"
     /\ tool_name \in {Str("weather"), Str("news")}
     /\ Truthy(parameter)
     /\ env.lookup # "not called"
     /\ tool_data = None)
    => (/\ result.tool_used = tool_name
        /\ result.raw_data = None
        /\ result.answer # "")

\* C3: when the classification completion fails, or answers something that is
\* not a JSON object, classify_query returns (llm_only, None) and raises
\* nothing.
C3_MalformedFallsBack ==
    (env.cls # NotCalled /\ MalformedOrFailed(env.cls))
    => (/\ pc # "raised"
        /\ exc = ""
        /\ tool_name = Str("llm_only")
        /\ parameter = None)

C3_Witness ==
    /\ pc = "classified"
    /\ env.cls = Completion(JsonText(JsonArray))

\* C4: the tool selection classify_query returns, and so tool_used of every
\* result, is one of weather, news, llm_only.
C4_ThreeLabels ==
    /\ Classified => tool_name \in ToolLabels
    /\ Synthesized => result.tool_used \in ToolLabels

\* C5 as claimed: whenever classify_query returns llm_only, or the
\* completion's output carried no parameter, the returned parameter is null.
C5_NullParameterAsClaimed ==
    (/\ Classified
     /\ \/ tool_name = Str("llm_only")
        \/ ~Carries(env.cls, "parameter"))
    => parameter = None

\* C5, amended: the returned parameter is null whenever classify_query fell
\* back (failed or malformed completion) or the answered object carried no
\* parameter; an object that carries one has it returned as it is, whatever
\* the selection.
C5_ParameterAsCarried ==
    Classified =>
        IF Carries(env.cls, "parameter")
        THEN parameter = env.cls.content.value.members["parameter"]
        ELSE parameter = None

C5_Witness ==
    /\ pc = "classified"
    /\ Carries(env.cls, "tool")
    /\ ~Carries(env.cls, "parameter")
    /\ tool_name = Str("weather")
    /\ parameter = None

\* C6: a lookup is called if and only if the selection is weather or news and
\* the parameter is neither null nor empty, and it is then the lookup of the
\* selected tool called once with that parameter; in every other case no
\* lookup is called and raw_data is null.
C6_LookupIffToolAndParameter ==
    Dispatched =>
        IF /\ tool_name \in {Str("weather"), Str("news")}
           /\ parameter # None
           /\ parameter # Str("")
        THEN LookupCalls = <<[purpose |-> tool_name.val, argument |-> parameter]>>
        ELSE /\ LookupCalls = << >>
             /\ env.lookup = "not called"
             /\ tool_data = None
             /\ Synthesized => result.raw_data = None

C6_Witness ==
    /\ pc = "returned"
    /\ tool_name = Str("news")
    /\ parameter = Str("")
    /\ LookupCalls = << >>

\* C7: a failed synthesis completion is not propagated: the result says that
\* an error occurred, its answer is the apology followed by the failure
\* detail, tool_used is the tool passed in and raw_data is null, also when
\* tool data had been fetched.
C7_SynthesisFailureDegrades ==
    (env.synth # NotCalled /\ env.synth.status = "error")
    => (/\ pc \in {"synthesized", "returned"}
        /\ exc = ""
        /\ result.reasoning = "An error occurred while generating the response."
        /\ result.answer = Apology \o env.synth.detail
        /\ result.tool_used = tool_name
        /\ result.raw_data = None)

C7_Witness ==
    /\ pc = "returned"
    /\ env.synth = ApiError("Connection error.")
    /\ tool_data = WeatherRecord
    /\ result.raw_data = None

\* C8: the memory never holds more than max_memory_size entries, and holds
\* exactly the last min(appended, max_memory_size) entries handed to
\* add_to_memory, oldest first.
C8_MemoryIsLastAppended ==
    /\ Len(memory) <= max_memory_size
    /\ Len(memory) = Min(Len(appended), max_memory_size)
    /\ \A i \in 1..Len(memory) :
          memory[i] = appended[Len(appended) - Len(memory) + i]

C8_Witness ==
    /\ pc = "added"
    /\ Len(appended) = max_memory_size + 2
    /\ appended[1] # appended[3]
    /\ memory[1] = appended[3]

\* the text get_memory_context is to render for entry number i
ExpectedLines(i, entry) ==
    LET answer == entry.response.answer
        shown == IF Len(answer) > 100 THEN 100 ELSE Len(answer)
    IN  ToString(i) \o ". User: " \o entry.query \o "\n   Assistant: "
        \o SubSeq(answer, 1, shown) \o "...\n"

\* C9: get_memory_context returns "" on an empty memory; otherwise the header
\* and the last min(3, size) entries, oldest first and numbered from 1, each
\* with its query and the first at most 100 characters of its answer followed
\* by an ellipsis.
C9_ContextIsLastThree ==
    (pc = "rendered") =>
        LET n == Len(memory)
            header == "\n\nRecent conversation history:\n"
        IN  CASE n = 0 -> memory_context = ""
              [] n = 1 -> memory_context = header \o ExpectedLines(1, memory[1])
              [] n = 2 -> memory_context =
                              header \o ExpectedLines(1, memory[1])
                              \o ExpectedLines(2, memory[2])
              [] OTHER -> memory_context =
                              header \o ExpectedLines(1, memory[n - 2])
                              \o ExpectedLines(2, memory[n - 1])
                              \o ExpectedLines(3, memory[n])

C9_Witness ==
    /\ pc = "rendered"
    /\ Len(memory) = max_memory_size
    /\ Len(memory[max_memory_size].response.answer) > PreviewLen
    /\ memory_context # ""

SynthesisSucceeded == env.synth.status = "ok" /\ env.synth.content.type = "str"

\* C11: weather or news selected with a non-empty parameter, a record
\* returned by the lookup and a successful synthesis give a result whose
\* tool_used is the selected tool and whose raw_data is the record the lookup
\* returned.
C11_RecordReachesResult ==
    (/\ Synthesized
     /\ tool_name \in {Str("weather"), Str("news")}
     /\ Truthy(parameter)
     /\ env.lookup = "ok"
     /\ SynthesisSucceeded)
    => (/\ result.tool_used = tool_name
        /\ tool_data # None
        /\ result.raw_data = tool_data
        /\ result.raw_data = IF tool_name = Str("weather")
                             THEN WeatherRecord
                             ELSE NewsRecord(parameter))

C11_Witness ==
    /\ pc = "returned"
    /\ tool_name = Str("news")
    /\ env.lookup = "ok"
    /\ SynthesisSucceeded
    /\ result.raw_data = NewsRecord(Str("Paris"))

\* C12: whatever the upstream does (HTTP failure, timeout, unknown city,
\* malformed or unexpectedly shaped payload, non-ok status, no articles), a
\* lookup returns a record or null and raises nothing into process_query.
C12_LookupsNeverRaise ==
    (env.lookup # "not called")
    => (/\ pc # "raised"
        /\ exc = ""
        /\ tool_data = None \/ tool_data.type = "dict")

\* the purposes of the external calls of the call in flight, in order
Purposes == [i \in 1..Len(calls) |-> calls[i].purpose]

\* the context get_memory_context is to render from mem
ExpectedContext(mem) ==
    LET n == Len(mem)
        header == "\n\nRecent conversation history:\n"
    IN  CASE n = 0 -> ""
          [] n = 1 -> header \o ExpectedLines(1, mem[1])
          [] n = 2 -> header \o ExpectedLines(1, mem[1]) \o ExpectedLines(2, mem[2])
          [] OTHER -> header \o ExpectedLines(1, mem[n - 2])
                      \o ExpectedLines(2, mem[n - 1]) \o ExpectedLines(3, mem[n])

\* C15: within a call the steps come in the order classification, lookup
\* (if any), synthesis, memory append, each after the one before is over; so
\* the memory context of the synthesis prompt is rendered from the memory as
\* the earlier calls left it, without the entry of the call itself.
C15_FixedOrder ==
    /\ pc = "classified" => Purposes = <<"classification">>
    /\ pc = "dispatched" =>
          Purposes \in {<<"classification">>, <<"classification", "weather">>,
                        <<"classification", "news">>}
    /\ Synthesized =>
          Purposes \in {<<"classification", "synthesis">>,
                        <<"classification", "weather", "synthesis">>,
                        <<"classification", "news", "synthesis">>}
    /\ pc \in {"classified", "dispatched", "synthesized", "raised"} =>
          /\ Len(appended) < ncalls
          /\ memory = LastN(appended, max_memory_size)
    /\ pc = "synthesized" =>
          Last(calls).memory_context = ExpectedContext(memory)
    /\ pc = "returned" =>
          /\ Last(appended) = MemoryEntry(query, result)
          /\ Last(calls).memory_context =
                ExpectedContext(LastN(SubSeq(appended, 1, Len(appended) - 1),
                                      max_memory_size))

C15_Witness ==
    /\ pc = "returned"
    /\ Purposes = <<"classification", "weather", "synthesis">>
    /\ Len(appended) = 2
    /\ appended[1].query = query
    /\ Last(calls).memory_context = ExpectedContext(<<appended[1]>>)

\* C17: when synthesis succeeds the reasoning is the templated sentence
\* naming the tool exactly when a tool record was obtained, and the fixed
\* general-knowledge sentence otherwise, also when a tool was selected and
\* its lookup failed or was skipped; tool_used names the tool all the same.
C17_ReasoningByToolData ==
    (Synthesized /\ SynthesisSucceeded)
    => (/\ result.tool_used = tool_name
        /\ result.reasoning =
              IF tool_data = WeatherRecord
              THEN "The user asked about weather-related information, so I fetched data from the WEATHER API and combined it with my reasoning to form a comprehensive answer."
              ELSE IF tool_data # None
              THEN "The user asked about news-related information, so I fetched data from the NEWS API and combined it with my reasoning to form a comprehensive answer."
              ELSE "This query can be answered using my general knowledge without needing external tools.")

C17_Witness ==
    /\ pc = "returned"
    /\ SynthesisSucceeded
    /\ tool_name = Str("weather")
    /\ env.lookup = "http_error"
    /\ result.tool_used = Str("weather")
    /\ result.reasoning = GeneralReasoning

\* C18: when the classification completion call fails the call goes on in
\* pure-LLM mode: no lookup is made, the synthesis completion is still
\* attempted, and the result has tool_used llm_only and raw_data null.
C18_ClassifierFailureGoesOn ==
    (env.cls # NotCalled /\ env.cls.status = "error")
    => (/\ pc # "raised"
        /\ LookupCalls = << >>
        /\ pc = "classified" => ENABLED DispatchSkip
        /\ pc = "dispatched" => ENABLED (\E resp \in SynthResponses : Synthesize(resp))
        /\ Synthesized =>
              /\ Last(calls).purpose = "synthesis"
              /\ Last(calls).template = "llm_only"
              /\ result.tool_used = Str("llm_only")
              /\ result.raw_data = None)

C18_Witness ==
    /\ pc = "returned"
    /\ env.cls = ApiError("Connection error.")
    /\ env.synth = Completion(Str(" It is sunny. "))
    /\ result.tool_used = Str("llm_only")

\* C19: the memory is empty at construction and changes only in the append
\* step that ends process_query, by the entry of that call being appended
\* (and the oldest leaving when over capacity); classification, lookup,
\* context rendering and synthesis leave it as it is; nothing clears it.
C19_MemoryChangesOnlyByAppend ==
    /\ memory = << >>
    /\ [][memory' # memory =>
            /\ pc = "synthesized"
            /\ pc' = "returned"
            /\ memory' # << >>
            /\ LET grown == Append(memory, MemoryEntry(query, result))
               IN  memory' = grown \/ memory' = Tail(grown)]_vars

C19_Witness ==
    /\ pc = "synthesized"
    /\ ncalls = 2
    /\ LookupCalls # << >>
    /\ memory_context # ""
    /\ Len(memory) = 1

\* C20: no step is retried: a process_query call makes exactly one
\* classification completion call, exactly one synthesis completion call and
\* at most one lookup call, whether those calls succeed or fail.
C20_ExactlyOneOfEach ==
    (pc \in {"returned", "raised"})
    => (/\ Len(SelectSeq(calls, LAMBDA c : c.purpose = "classification")) = 1
        /\ Len(SelectSeq(calls, LAMBDA c : c.purpose = "synthesis")) = 1
        /\ Len(LookupCalls) <= 1)

\* C13: at /ask the only requests that end in a failure are those met by an
\* uninitialized agent and those with an empty or blank query; every other
\* request, whatever fails after the query is received, ends in a successful
\* response that carries an answer.
C13_OnlyValidationFails ==
    (http.state = "done")
    => IF agent = "none" \/ http.query = "" \/ Strip(http.query) = ""
       THEN http.status \in {400, 422, 503}
       ELSE /\ http.status = 200
            /\ http.body.answer # ""

\* C14: when two process_query calls overlap, nothing another call appends
\* to or evicts from the memory falls between a call's read of the memory
\* for its prompt and its own append.
C14_ReadToAppendExclusive ==
    \A t \in Callers :
        (threads[t].pc \in {"appended", "over"}) => threads[t].between = 0

\* C16: every process_query call that has started eventually comes to its
\* end; none stays waiting on an external call, because each external call
\* is bounded by a timeout of its own.
C16_EveryCallEnds ==
    (pc \in {"classified", "dispatched", "synthesized"})
        ~> (pc \in {"returned", "raised"})

\* C21: in every result of process_query, raw_data is non-null only if
\* tool_used is weather or news, the lookup of that tool was called in the
\* same call and returned a record, and the synthesis completion succeeded;
\* with tool_used llm_only raw_data is null.
C21_RawDataOnlyFromLookup ==
    Synthesized =>
        /\ (result.raw_data # None) =>
               /\ result.tool_used \in {Str("weather"), Str("news")}
               /\ LookupCalls = <<[purpose |-> result.tool_used.val,
                                   argument |-> parameter]>>
               /\ env.lookup = "ok"
               /\ result.raw_data = tool_data
               /\ result.raw_data.type = "dict"
               /\ SynthesisSucceeded
        /\ (result.tool_used = Str("llm_only")) => result.raw_data = None

C21_Witness ==
    /\ pc = "returned"
    /\ result.tool_used = Str("weather")
    /\ result.raw_data = WeatherRecord
    /\ LookupCalls = <<[purpose |-> "weather", argument |-> Str("Paris")]>>

\* no caller is inside process_query
Quiescent == \A t \in Callers : threads[t].pc \in {"idle", "returned"}

\* C22: with no lock, whatever the interleaving of the append, the length
\* test and the pop of the oldest entry among overlapping calls, once every
\* call has completed the memory holds at most max_memory_size entries, and
\* they are the newest entries appended, in the order of their appends:
\* whatever is missing was removed from the old end.
C22_InterleavedMemoryBounded ==
    Quiescent =>
        /\ Len(memory) <= max_memory_size
        /\ Len(memory) <= Len(appended)
        /\ memory = SubSeq(appended, Len(appended) - Len(memory) + 1, Len(appended))

\* two overlapping calls both found the memory over capacity before either
\* popped
C22_Witness ==
    /\ Quiescent
    /\ \E t \in Callers : threads[t].pc = "returned" /\ threads[t].between > 0
    /\ Len(appended) = max_memory_size + 1
    /\ Len(memory) = max_memory_size - 1

\* C23: the classification request, the tool selected, the parameter and
\* the decision whether to call a lookup are fixed by the query and the
\* answer of the classification completion alone; whatever the memory holds
\* when the call is made, they are the same.
C23_ClassificationIgnoresMemory ==
    /\ Classified =>
           /\ calls[1] = [purpose |-> "classification", query |-> query]
           /\ <<tool_name, parameter>> = classify_query(query, env.cls).value
    /\ Dispatched =>
           LookupCalls =
               IF SelectLookup(classify_query(query, env.cls).value[1],
                               classify_query(query, env.cls).value[2]) = "none"
               THEN << >>
               ELSE <<[purpose |-> classify_query(query, env.cls).value[1].val,
                       argument |-> classify_query(query, env.cls).value[2]]>>

\* a second call, made with an entry in the memory, has classified its query
\* and called a lookup
C23_Witness ==
    /\ pc = "dispatched"
    /\ memory # << >>
    /\ get_memory_context(memory) # ""
    /\ LookupCalls = <<[purpose |-> "news", argument |-> Str("Paris")]>>

\* C24: a request met by an uninitialized agent, or with an empty or blank
\* query, is answered with a refusal in the step that takes it, and that
\* step starts no process_query call: no completion or lookup call is made
\* and the memory is left as it was.
C24_RefusalTouchesNothing ==
    [][(/\ http' # http
        /\ http'.state # "none"
        /\ (agent = "none" \/ http'.query = "" \/ Strip(http'.query) = ""))
       => (/\ http'.state = "done"
           /\ http'.status \in {400, 422, 503}
           /\ memory' = memory
           /\ appended' = appended
           /\ calls' = calls
           /\ env' = env
           /\ ncalls' = ncalls
           /\ pc' = pc)]_vars

\* a blank query refused after an earlier request had been answered
C24_Witness ==
    /\ http.state = "done"
    /\ http.status = 400
    /\ http.query = "   "
    /\ pc = "returned"
    /\ memory # << >>
    /\ Len(calls) >= 2

====
